---- MODULE Spec2Model ----
(***************************************************************************)
(* Verification model of scroll-tech/rpc-gateway:                          *)
(*   - node.clientProvider (registerGroup / getClient), the lazily filled  *)
(*     group => node name => RPC client cache, under concurrent callers;   *)
(*   - rpc.MustNew*Server, the assembly of the three RPC servers.          *)
(***************************************************************************)
EXTENDS Integers, Sequences, FiniteSets, TLC

\* ------------------------------------------------------------------ bounds
NumProcs == 2      \* goroutines calling into the provider
MaxCalls == 2      \* calls each goroutine makes
MaxInbound == 3    \* calls in all while the servers are serving
MaxQuota == 1      \* largest quota of a rate limit registry
MaxList == 2       \* longest exposed-module list
MaxCtx == 3        \* contexts handed to remoteAddrFromContext
MaxEpoch == 2      \* largest epoch number pushed
MaxSlice == 2      \* longest dataSlice handed to Pushn
MaxPush == 2       \* calls of Pushn
MaxStarts == 3     \* starts of the process against one database server
MaxParts == 5      \* largest LogsTablePartitionsNum
MaxRangeSize == 4  \* largest LogsTablePartitionRangeSize

Procs == 1..NumProcs

\* ------------------------------------------------------------- value sets
Groups == {"cfxhttp", "ethhttp"}

\* URLs the router can answer with; "" is "no full node available".
Urls == {"", "http://n1", "ws://n1", "http://n2"}

\* url[p] before the router has been asked in the current call.
NotRouted == "-"

\* rpc.Url2NodeName: a pure function of the URL, the same name for the same
\* URL.  Nothing makes it injective: two URLs of one node share a name.
Url2NodeName(u) ==
    IF u \in {"http://n1", "ws://n1"} THEN "n1"
    ELSE IF u = "http://n2" THEN "n2"
    ELSE ""

Nodes == {Url2NodeName(u) : u \in Urls}

\* The nil *util.ConcurrentMap; pools are numbered from 1 in creation order.
NoPool == 0
PoolIds == 1..(NumProcs * MaxCalls)

\* Values handed around: [k |-> kind, id |-> identity of the object].
Val(k, i) == [k |-> k, id |-> i]
None == Val("none", 0)
Absent == Val("absent", 0)
ErrClientUnavailable == Val("unavailable", 0)
ErrUnknownGroup == Val("unknownGroup", 0)

\* ------------------------------------------------------------ server values
Spaces == {"native", "evm", "bridge"}

nativeSpaceRpcServerName == "core_space_rpc"
evmSpaceRpcServerName == "evm_space_rpc"
nativeSpaceBridgeRpcServerName == "core_space_bridge_rpc"

\* rate.DefaultRegistryCfx and rate.DefaultRegistryEth
Registries == {"DefaultRegistryCfx", "DefaultRegistryEth"}

\* An API descriptor: the module (namespace) and whether it is marked public.
ApiDescs == {[name |-> "cfx", public |-> TRUE], [name |-> "trace", public |-> FALSE]}
ApiSets == SUBSET ApiDescs

\* Names an exposed-module list can hold, one of them no module at all.
ModuleNames == {"cfx", "trace", "nonexistent"}
ExposedLists == UNION {[1..n -> ModuleNames] : n \in 0..MaxList}

Range(f) == {f[i] : i \in DOMAIN f}

\* The rate registry each assembly function hands to httpMiddleware.
RegistryOf(s) == IF s = "native" THEN "DefaultRegistryCfx" ELSE "DefaultRegistryEth"

\* The node group the handlers of a space ask the provider for.
GroupOf(s) == IF s = "native" THEN "cfxhttp" ELSE "ethhttp"

NoServer == [built |-> FALSE, name |-> "", apis |-> {}, middleware |-> <<>>]
NoArgs == [called |-> FALSE, apisErr |-> FALSE, allApis |-> {}, exposedModules |-> <<>>]
Args(e, a, x) == [called |-> TRUE, apisErr |-> e, allApis |-> a, exposedModules |-> x]

\* What an assembly function ends in: a server, or logrus Fatal (os.Exit).
Fatal == [fatal |-> TRUE, server |-> NoServer]
Returned(srv) == [fatal |-> FALSE, server |-> srv]

ErrRateLimited == Val("rateLimited", 0)
ErrMethodNotFound == Val("methodNotFound", 0)
Served == Val("served", 0)

\* No map write in progress.
NoWrite == [g |-> "", pool |-> NoPool]

VARIABLES
    clients,   \* p.clients: group -> pool id (NoPool: key absent)
    writing,   \* the map assignment of line 151 that is under way, or NoWrite
    mutex,     \* p.mutex: 0 free, else the goroutine holding it
    nextPool,  \* number of ConcurrentMap objects allocated so far
    pools,     \* pool id -> node name -> slot (Absent, inflight, client)
    facSeq,    \* number of p.factory invocations so far (names the results)
    pc,        \* goroutine -> position
    grp,       \* goroutine -> argument group of the current call
    url,       \* goroutine -> URL the router returned in the current call
    cpool,     \* goroutine -> local variable clients of getClient
    res,       \* goroutine -> value held / returned by the current call
    nCalls,    \* goroutine -> calls started
    crashed,   \* the process died (fatal map race, nil dereference)
    \* history
    everReg,   \* groups ever passed to registerGroup
    nStores,   \* group -> number of map stores at line 151
    rgRet,     \* group -> pools returned by registerGroup
    raced,     \* an unsynchronised map read overlapped a map write
    facCalls,  \* <<group, node>> -> factory invocations
    facFails,  \* <<group, node>> -> failed factory invocations
    miss,      \* goroutine -> the node was not cached when the call was routed
    made,      \* goroutine -> the current call invoked the factory
    late,      \* goroutine -> the call began after a registerGroup(grp) returned
    \* server assembly and serving
    server,    \* space -> the *rpc.Server the assembly function returned
    asmIn,     \* space -> the arguments the assembly function was called with
    exited,    \* logrus Fatal ended the process
    limit,     \* rate registry -> quota
    used,      \* rate registry -> calls admitted
    dispatched, \* space -> calls handed to a handler
    \* the caller's context
    canceled,  \* goroutine -> number of its call whose context was canceled
    addrLog,   \* the calls of remoteAddrFromContext: context and result
    \* the epoch_block_map table
    e2bTable,  \* the rows of the table, in insertion order
    nPush,     \* calls of Pushn so far
    pushIn,    \* the dataSlice of the last Pushn
    pushErr,   \* the last Pushn returned an error
    \* opening the store
    dbExists,  \* the database config.Database exists on the server
    tables,    \* number of the schema tables that exist, in CreateTable's order
    partitioned, \* the logs table is partitioned
    opc,       \* position of the process in MustOpenOrCreate, or "down"
    newCreated, \* local variable newCreated of MustOpenOrCreate
    nStarts,   \* starts of the process so far
    \* initLogsPartitions
    ppc,       \* position in initLogsPartitions, or "idle"
    partsNum,  \* LogsTablePartitionsNum
    rangeSize, \* LogsTablePartitionRangeSize
    partI,     \* the loop variable i
    sqlLines,  \* the partition definitions appended so far
    logsParts  \* the partitions of the logs table once the statement has run

provVars == <<clients, writing, mutex, nextPool, pools, facSeq, pc, grp, url,
              cpool, res, nCalls, crashed, everReg, nStores, rgRet, raced,
              facCalls, facFails, miss, made, late>>

\* What lies outside the provider and the servers.
e2bVars == <<e2bTable, nPush, pushIn, pushErr>>

openVars == <<dbExists, tables, partitioned, opc, newCreated, nStarts>>

partVars == <<ppc, partsNum, rangeSize, partI, sqlLines, logsParts>>

extVars == <<canceled, addrLog, e2bVars, openVars, partVars>>

\* The servers, and with them everything outside the provider.
srvVars == <<server, asmIn, exited, limit, used, dispatched, extVars>>

vars == <<provVars, srvVars>>

\* ---------------------------------------------------------------- helpers
At(p, l) == ~crashed /\ ~exited /\ pc[p] = l

\* Reading p.clients[g].  With no write under way the read is exact.  While
\* another goroutine is inside the assignment of line 151 the read is a data
\* race on a Go map: it can miss a key, and for the key being inserted it can
\* see the key with its value or with the value not yet stored (nil).
mapaccess(g) ==
    LET exact == [ok |-> clients[g] # NoPool, val |-> clients[g]] IN
    IF writing = NoWrite THEN {exact}
    ELSE {exact, [ok |-> FALSE, val |-> NoPool]} \cup
         (IF writing.g = g
          THEN {[ok |-> TRUE, val |-> writing.pool], [ok |-> TRUE, val |-> NoPool]}
          ELSE {})

Slot(p) == pools[cpool[p]][Url2NodeName(url[p])]

Key(p) == <<grp[p], Url2NodeName(url[p])>>

InitBase ==
    /\ clients = [g \in Groups |-> NoPool]
    /\ writing = NoWrite
    /\ mutex = 0
    /\ nextPool = 0
    /\ pools = [i \in PoolIds |-> [n \in Nodes |-> Absent]]
    /\ facSeq = 0
    /\ pc = [p \in Procs |-> "idle"]
    /\ grp = [p \in Procs |-> "cfxhttp"]
    /\ url = [p \in Procs |-> NotRouted]
    /\ cpool = [p \in Procs |-> NoPool]
    /\ res = [p \in Procs |-> None]
    /\ nCalls = [p \in Procs |-> 0]
    /\ crashed = FALSE
    /\ everReg = {}
    /\ nStores = [g \in Groups |-> 0]
    /\ rgRet = [g \in Groups |-> {}]
    /\ raced = FALSE
    /\ facCalls = [k \in Groups \X Nodes |-> 0]
    /\ facFails = [k \in Groups \X Nodes |-> 0]
    /\ miss = [p \in Procs |-> FALSE]
    /\ made = [p \in Procs |-> FALSE]
    /\ late = [p \in Procs |-> FALSE]
    /\ server = [s \in Spaces |-> NoServer]
    /\ asmIn = [s \in Spaces |-> NoArgs]
    /\ exited = FALSE
    /\ used = [r \in Registries |-> 0]
    /\ dispatched = [s \in Spaces |-> 0]
    /\ canceled = [p \in Procs |-> 0]
    /\ addrLog = <<>>
    /\ e2bTable = <<>>
    /\ nPush = 0
    /\ pushIn = <<>>
    /\ pushErr = FALSE
    /\ dbExists = FALSE
    /\ tables = 0
    /\ partitioned = FALSE
    /\ opc = "down"
    /\ newCreated = FALSE
    /\ nStarts = 0
    /\ ppc = "idle"
    /\ partsNum = 0
    /\ rangeSize = 1
    /\ partI = 0
    /\ sqlLines = <<>>
    /\ logsParts = <<>>

\* A provider used on its own: no server is assembled, no limiter consulted.
Init == InitBase /\ limit = [r \in Registries |-> 0]

\* A goroutine begins a call: the per-call locals are fresh.
Begin(p, g, at, r) ==
    /\ At(p, "idle")
    /\ nCalls[p] < MaxCalls
    /\ pc' = [pc EXCEPT ![p] = at]
    /\ grp' = [grp EXCEPT ![p] = g]
    /\ url' = [url EXCEPT ![p] = NotRouted]
    /\ cpool' = [cpool EXCEPT ![p] = NoPool]
    /\ res' = [res EXCEPT ![p] = r]
    /\ nCalls' = [nCalls EXCEPT ![p] = @ + 1]
    /\ miss' = [miss EXCEPT ![p] = FALSE]
    /\ made' = [made EXCEPT ![p] = FALSE]
    /\ late' = [late EXCEPT ![p] = rgRet[g] # {}]

\* ------------------------------------------------------------ registerGroup
registerGroup(p, g) ==
    /\ Begin(p, g, "rg146", None)
    /\ everReg' = everReg \cup {g}
    /\ UNCHANGED srvVars
    /\ UNCHANGED <<clients, writing, mutex, nextPool, pools, facSeq, crashed,
                   nStores, rgRet, raced, facCalls, facFails>>

\* line 146: if _, ok := p.clients[group]; !ok  -- read without the mutex
rg146(p) ==
    /\ At(p, "rg146")
    /\ \E r \in mapaccess(grp[p]) :
          pc' = [pc EXCEPT ![p] = IF r.ok THEN "rg155" ELSE "rg147"]
    /\ raced' = (raced \/ writing # NoWrite)
    /\ UNCHANGED srvVars
    /\ UNCHANGED <<clients, writing, mutex, nextPool, pools, facSeq, grp, url,
                   cpool, res, nCalls, crashed, everReg, nStores, rgRet,
                   facCalls, facFails, miss, made, late>>

\* line 147: p.mutex.Lock()
rg147(p) ==
    /\ At(p, "rg147")
    /\ mutex = 0
    /\ mutex' = p
    /\ pc' = [pc EXCEPT ![p] = "rg150"]
    /\ UNCHANGED srvVars
    /\ UNCHANGED <<clients, writing, nextPool, pools, facSeq, grp, url, cpool,
                   res, nCalls, crashed, everReg, nStores, rgRet, raced,
                   facCalls, facFails, miss, made, late>>

\* line 150: the double check, under the mutex
rg150(p) ==
    /\ At(p, "rg150")
    /\ \E r \in mapaccess(grp[p]) :
          pc' = [pc EXCEPT ![p] = IF r.ok THEN "rg155" ELSE "rg151"]
    /\ raced' = (raced \/ writing # NoWrite)
    /\ UNCHANGED srvVars
    /\ UNCHANGED <<clients, writing, mutex, nextPool, pools, facSeq, grp, url,
                   cpool, res, nCalls, crashed, everReg, nStores, rgRet,
                   facCalls, facFails, miss, made, late>>

\* registerGroup handing a new group the pool of a group that has one: all the
\* groups share one ConcurrentMap
rg151_SharedPool(p) ==
    /\ At(p, "rg151")
    /\ nextPool < NumProcs * MaxCalls
    /\ nextPool' = nextPool + 1
    /\ writing' = [g |-> grp[p], pool |-> 1]
    /\ pc' = [pc EXCEPT ![p] = "rg151w"]
    /\ UNCHANGED srvVars
    /\ UNCHANGED <<clients, mutex, pools, facSeq, grp, url, cpool, res, nCalls,
                   crashed, everReg, nStores, rgRet, raced, facCalls, facFails,
                   miss, made, late>>

\* line 151: p.clients[group] = &util.ConcurrentMap{} -- the assignment begins:
\* the object is allocated and the key goes into the map
rg151(p) ==
    /\ At(p, "rg151")
    /\ nextPool < NumProcs * MaxCalls
    /\ nextPool' = nextPool + 1
    /\ writing' = [g |-> grp[p], pool |-> nextPool + 1]
    /\ pc' = [pc EXCEPT ![p] = "rg151w"]
    /\ UNCHANGED srvVars
    /\ UNCHANGED <<clients, mutex, pools, facSeq, grp, url, cpool, res, nCalls,
                   crashed, everReg, nStores, rgRet, raced, facCalls, facFails,
                   miss, made, late>>

\* line 151, end of the assignment: the value is in the map
rg151w(p) ==
    /\ At(p, "rg151w")
    /\ clients' = [clients EXCEPT ![writing.g] = writing.pool]
    /\ nStores' = [nStores EXCEPT ![writing.g] = @ + 1]
    /\ writing' = NoWrite
    /\ pc' = [pc EXCEPT ![p] = "rg155"]
    /\ UNCHANGED srvVars
    /\ UNCHANGED <<mutex, nextPool, pools, facSeq, grp, url, cpool, res, nCalls,
                   crashed, everReg, rgRet, raced, facCalls, facFails, miss,
                   made, late>>

\* line 155: return p.clients[group]; the deferred Unlock runs when the slow
\* path was taken
rg155(p) ==
    /\ At(p, "rg155")
    /\ \E r \in mapaccess(grp[p]) :
          /\ res' = [res EXCEPT ![p] = Val("pool", r.val)]
          /\ rgRet' = [rgRet EXCEPT ![grp[p]] = @ \cup {r.val}]
    /\ raced' = (raced \/ writing # NoWrite)
    /\ mutex' = IF mutex = p THEN 0 ELSE mutex
    /\ pc' = [pc EXCEPT ![p] = "idle"]
    /\ UNCHANGED srvVars
    /\ UNCHANGED <<clients, writing, nextPool, pools, facSeq, grp, url, cpool,
                   nCalls, crashed, everReg, nStores, facCalls, facFails, miss,
                   made, late>>

\* The Go runtime detects a map read during a map write and kills the process
\* ("fatal error: concurrent map read and map write").
fatalMapRace(p) ==
    /\ ~crashed
    /\ ~exited
    /\ pc[p] \in {"rg146", "rg155", "gc160"}
    /\ writing # NoWrite
    /\ crashed' = TRUE
    /\ raced' = TRUE
    /\ UNCHANGED srvVars
    /\ UNCHANGED <<clients, writing, mutex, nextPool, pools, facSeq, pc, grp,
                   url, cpool, res, nCalls, everReg, nStores, rgRet, facCalls,
                   facFails, miss, made, late>>

\* ---------------------------------------------------------------- getClient
\* Router.Route(group, key): the router is an external, possibly stateful
\* collaborator; any URL, or "" when no full node is available.
Route(g) == Urls

\* util.ConcurrentMap.LoadOrStoreFnErr, what a caller finds on entry: a stored
\* client is loaded, a creation under way is awaited, else the caller creates.
LoadOrStoreFnErr(slot) ==
    IF slot.k = "inflight" THEN "wait"
    ELSE IF slot.k = "absent" THEN "create"
    ELSE "load"

\* util.ConcurrentMap.LoadOrStoreFnErr, what the slot holds once the factory
\* has returned out: a value is stored, an error leaves the slot empty.
StoreFnErr(out) == IF out.k = "err" THEN Absent ELSE out

getClient(p, g) ==
    /\ Begin(p, g, "gc160", None)
    /\ UNCHANGED srvVars
    /\ UNCHANGED <<clients, writing, mutex, nextPool, pools, facSeq, crashed,
                   everReg, nStores, rgRet, raced, facCalls, facFails>>

\* getClient without the check of lines 172-175: an empty URL is used as it is
gc160_NoEmptyCheck(p) ==
    /\ At(p, "gc160")
    /\ \E r \in mapaccess(grp[p]) :
          IF ~r.ok
          THEN /\ res' = [res EXCEPT ![p] = ErrUnknownGroup]
               /\ pc' = [pc EXCEPT ![p] = "idle"]
               /\ UNCHANGED <<url, cpool, miss>>
          ELSE \E u \in Route(grp[p]) :
               /\ url' = [url EXCEPT ![p] = u]
               /\ cpool' = [cpool EXCEPT ![p] = r.val]
               /\ miss' = [miss EXCEPT ![p] =
                             \/ r.val = NoPool
                             \/ pools[r.val][Url2NodeName(u)].k # "client"]
               /\ res' = res
               /\ pc' = [pc EXCEPT ![p] = "gc185"]
    /\ raced' = (raced \/ writing # NoWrite)
    /\ UNCHANGED srvVars
    /\ UNCHANGED <<clients, writing, mutex, nextPool, pools, facSeq, grp,
                   nCalls, crashed, everReg, nStores, rgRet, facCalls,
                   facFails, made, late>>

\* getClient without the check of lines 161-163: a group that is not in the
\* map is routed all the same, with the nil pool
gc160_NoGroupCheck(p) ==
    /\ At(p, "gc160")
    /\ \E r \in mapaccess(grp[p]), u \in Route(grp[p]) :
          /\ url' = [url EXCEPT ![p] = u]
          /\ cpool' = [cpool EXCEPT ![p] = r.val]
          /\ miss' = [miss EXCEPT ![p] =
                        \/ r.val = NoPool
                        \/ pools[r.val][Url2NodeName(u)].k # "client"]
          /\ IF u = ""
             THEN /\ res' = [res EXCEPT ![p] = ErrClientUnavailable]
                  /\ pc' = [pc EXCEPT ![p] = "idle"]
             ELSE /\ res' = res
                  /\ pc' = [pc EXCEPT ![p] = "gc185"]
    /\ raced' = (raced \/ writing # NoWrite)
    /\ UNCHANGED srvVars
    /\ UNCHANGED <<clients, writing, mutex, nextPool, pools, facSeq, grp,
                   nCalls, crashed, everReg, nStores, rgRet, facCalls,
                   facFails, made, late>>

\* lines 160-177: look the group up (no mutex), ask the router, name the node
gc160(p) ==
    /\ At(p, "gc160")
    /\ \E r \in mapaccess(grp[p]) :
          IF ~r.ok
          THEN /\ res' = [res EXCEPT ![p] = ErrUnknownGroup]
               /\ pc' = [pc EXCEPT ![p] = "idle"]
               /\ UNCHANGED <<url, cpool, miss>>
          ELSE \E u \in Route(grp[p]) :
               /\ url' = [url EXCEPT ![p] = u]
               /\ cpool' = [cpool EXCEPT ![p] = r.val]
               /\ miss' = [miss EXCEPT ![p] =
                             \/ r.val = NoPool
                             \/ pools[r.val][Url2NodeName(u)].k # "client"]
               /\ IF u = ""
                  THEN /\ res' = [res EXCEPT ![p] = ErrClientUnavailable]
                       /\ pc' = [pc EXCEPT ![p] = "idle"]
                  ELSE /\ res' = res
                       /\ pc' = [pc EXCEPT ![p] = "gc185"]
    /\ raced' = (raced \/ writing # NoWrite)
    /\ UNCHANGED srvVars
    /\ UNCHANGED <<clients, writing, mutex, nextPool, pools, facSeq, grp,
                   nCalls, crashed, everReg, nStores, rgRet, facCalls,
                   facFails, made, late>>

\* getClient calling p.factory(url) at once, with no LoadOrStoreFnErr around it
gc185_NoLoadOrStore(p) ==
    /\ At(p, "gc185")
    /\ cpool[p] # NoPool
    /\ pc' = [pc EXCEPT ![p] = "gc189"]
    /\ pools' = [pools EXCEPT ![cpool[p]][Url2NodeName(url[p])] =
                                 Val("inflight", facSeq + 1)]
    /\ facSeq' = facSeq + 1
    /\ facCalls' = [facCalls EXCEPT ![Key(p)] = @ + 1]
    /\ made' = [made EXCEPT ![p] = TRUE]
    /\ UNCHANGED srvVars
    /\ UNCHANGED <<clients, writing, mutex, nextPool, grp, url, cpool, res,
                   nCalls, crashed, everReg, nStores, rgRet, raced, facFails,
                   miss, late>>

\* getClient on a pool that guards creation with one lock for the whole map: a
\* call waits while any node of the pool is being created
gc185_MapLock(p) ==
    /\ At(p, "gc185")
    /\ cpool[p] # NoPool
    /\ LET busy == \E n \in Nodes : pools[cpool[p]][n].k = "inflight"
           how == IF Slot(p).k = "client" THEN "load"
                  ELSE IF busy THEN "wait" ELSE "create"
       IN
       /\ pc' = [pc EXCEPT ![p] = CASE how = "load" -> "gc192"
                                    [] how = "wait" -> "gc185w"
                                    [] OTHER -> "gc189"]
       /\ res' = [res EXCEPT ![p] = IF how = "load" THEN Slot(p) ELSE @]
       /\ IF how = "create"
          THEN /\ pools' = [pools EXCEPT ![cpool[p]][Url2NodeName(url[p])] =
                                            Val("inflight", facSeq + 1)]
               /\ facSeq' = facSeq + 1
               /\ facCalls' = [facCalls EXCEPT ![Key(p)] = @ + 1]
               /\ made' = [made EXCEPT ![p] = TRUE]
          ELSE UNCHANGED <<pools, facSeq, facCalls, made>>
    /\ UNCHANGED srvVars
    /\ UNCHANGED <<clients, writing, mutex, nextPool, grp, url, cpool, nCalls,
                   crashed, everReg, nStores, rgRet, raced, facFails, miss,
                   late>>

\* getClient asking the pool for any client it holds, whatever the node name
\* of the routed URL
gc185_AnyCached(p) ==
    /\ At(p, "gc185")
    /\ cpool[p] # NoPool
    /\ LET held == {n \in Nodes : pools[cpool[p]][n].k = "client"}
           how == IF held # {} THEN "load" ELSE LoadOrStoreFnErr(Slot(p))
       IN
       /\ pc' = [pc EXCEPT ![p] = CASE how = "load" -> "gc192"
                                    [] how = "wait" -> "gc185w"
                                    [] OTHER -> "gc189"]
       /\ \E n \in (IF held # {} THEN held ELSE {Url2NodeName(url[p])}) :
             res' = [res EXCEPT ![p] = IF how = "load" THEN pools[cpool[p]][n] ELSE @]
       /\ IF how = "create"
          THEN /\ pools' = [pools EXCEPT ![cpool[p]][Url2NodeName(url[p])] =
                                            Val("inflight", facSeq + 1)]
               /\ facSeq' = facSeq + 1
               /\ facCalls' = [facCalls EXCEPT ![Key(p)] = @ + 1]
               /\ made' = [made EXCEPT ![p] = TRUE]
          ELSE UNCHANGED <<pools, facSeq, facCalls, made>>
    /\ UNCHANGED srvVars
    /\ UNCHANGED <<clients, writing, mutex, nextPool, grp, url, cpool, nCalls,
                   crashed, everReg, nStores, rgRet, raced, facFails, miss,
                   late>>

\* line 185: clients.LoadOrStoreFnErr(nodeName, ...) is entered
gc185(p) ==
    /\ At(p, "gc185")
    /\ cpool[p] # NoPool
    /\ LET how == LoadOrStoreFnErr(Slot(p)) IN
       /\ pc' = [pc EXCEPT ![p] = CASE how = "load" -> "gc192"
                                    [] how = "wait" -> "gc185w"
                                    [] OTHER -> "gc189"]
       /\ res' = [res EXCEPT ![p] = IF how = "load" THEN Slot(p) ELSE @]
       /\ IF how = "create"
          THEN /\ pools' = [pools EXCEPT ![cpool[p]][Url2NodeName(url[p])] =
                                            Val("inflight", facSeq + 1)]
               /\ facSeq' = facSeq + 1
               /\ facCalls' = [facCalls EXCEPT ![Key(p)] = @ + 1]
               /\ made' = [made EXCEPT ![p] = TRUE]
          ELSE UNCHANGED <<pools, facSeq, facCalls, made>>
    /\ UNCHANGED srvVars
    /\ UNCHANGED <<clients, writing, mutex, nextPool, grp, url, cpool, nCalls,
                   crashed, everReg, nStores, rgRet, raced, facFails, miss,
                   late>>

\* line 185 on the nil pool a torn map read handed out: nil pointer dereference
gc185nil(p) ==
    /\ At(p, "gc185")
    /\ cpool[p] = NoPool
    /\ crashed' = TRUE
    /\ UNCHANGED srvVars
    /\ UNCHANGED <<clients, writing, mutex, nextPool, pools, facSeq, pc, grp,
                   url, cpool, res, nCalls, everReg, nStores, rgRet, raced,
                   facCalls, facFails, miss, made, late>>

\* The goroutines awaiting the creation that p runs.
Waiters(p) ==
    {q \in Procs : /\ pc[q] = "gc185w"
                   /\ cpool[q] = cpool[p]
                   /\ Url2NodeName(url[q]) = Url2NodeName(url[p])}

\* The closure handed to LoadOrStoreFnErr swallowing the factory's error: what
\* the factory returned is handed on as a value
gc189_SwallowError(p) ==
    /\ At(p, "gc189")
    /\ \E ok \in BOOLEAN :
          LET out == Val(IF ok THEN "client" ELSE "err", Slot(p).id)
              got == Waiters(p) \cup {p}
          IN /\ pools' = [pools EXCEPT ![cpool[p]][Url2NodeName(url[p])] = out]
             /\ res' = [q \in Procs |-> IF q \in got THEN out ELSE res[q]]
             /\ pc' = [q \in Procs |-> IF q \in got THEN "gc192" ELSE pc[q]]
             /\ facFails' = [facFails EXCEPT ![Key(p)] = IF ok THEN @ ELSE @ + 1]
    /\ UNCHANGED srvVars
    /\ UNCHANGED <<clients, writing, mutex, nextPool, facSeq, grp, url, cpool,
                   nCalls, crashed, everReg, nStores, rgRet, raced, facCalls,
                   miss, made, late>>

\* getClient on a pool that is emptied when a creation fails: the cached
\* clients of the other nodes are dropped with the failed slot
gc189_EvictOnError(p) ==
    /\ At(p, "gc189")
    /\ \E ok \in BOOLEAN :
          LET out == Val(IF ok THEN "client" ELSE "err", Slot(p).id)
              got == Waiters(p) \cup {p}
          IN /\ pools' = [pools EXCEPT ![cpool[p]] =
                             IF ok THEN [@ EXCEPT ![Url2NodeName(url[p])] = out]
                             ELSE [n \in Nodes |->
                                     IF @[n].k = "inflight"
                                        /\ n # Url2NodeName(url[p])
                                     THEN @[n] ELSE Absent]]
             /\ res' = [q \in Procs |-> IF q \in got THEN out ELSE res[q]]
             /\ pc' = [q \in Procs |-> IF q \in got THEN "gc192" ELSE pc[q]]
             /\ facFails' = [facFails EXCEPT ![Key(p)] = IF ok THEN @ ELSE @ + 1]
    /\ UNCHANGED srvVars
    /\ UNCHANGED <<clients, writing, mutex, nextPool, facSeq, grp, url, cpool,
                   nCalls, crashed, everReg, nStores, rgRet, raced, facCalls,
                   miss, made, late>>

\* line 189: p.factory(url) returns a client or an error; LoadOrStoreFnErr
\* stores the client and hands the outcome to the creator and to the waiters
gc189(p) ==
    /\ At(p, "gc189")
    /\ \E ok \in BOOLEAN :
          LET out == Val(IF ok THEN "client" ELSE "err", Slot(p).id)
              got == Waiters(p) \cup {p}
          IN /\ pools' = [pools EXCEPT ![cpool[p]][Url2NodeName(url[p])] =
                                          StoreFnErr(out)]
             /\ res' = [q \in Procs |-> IF q \in got THEN out ELSE res[q]]
             /\ pc' = [q \in Procs |-> IF q \in got THEN "gc192" ELSE pc[q]]
             /\ facFails' = [facFails EXCEPT ![Key(p)] = IF ok THEN @ ELSE @ + 1]
    /\ UNCHANGED srvVars
    /\ UNCHANGED <<clients, writing, mutex, nextPool, facSeq, grp, url, cpool,
                   nCalls, crashed, everReg, nStores, rgRet, raced, facCalls,
                   miss, made, late>>

\* getClient answering a factory error with ErrClientUnavailable
gc192_Unavailable(p) ==
    /\ At(p, "gc192")
    /\ res' = [res EXCEPT ![p] = IF @.k = "err" THEN ErrClientUnavailable ELSE @]
    /\ pc' = [pc EXCEPT ![p] = "idle"]
    /\ UNCHANGED srvVars
    /\ UNCHANGED <<clients, writing, mutex, nextPool, pools, facSeq, grp, url,
                   cpool, nCalls, crashed, everReg, nStores, rgRet, raced,
                   facCalls, facFails, miss, made, late>>

\* lines 192-203: a factory error is wrapped ("bad full node connection"),
\* anything else is returned as it is
gc192(p) ==
    /\ At(p, "gc192")
    /\ res' = [res EXCEPT ![p] = IF @.k = "err" THEN Val("connErr", @.id) ELSE @]
    /\ pc' = [pc EXCEPT ![p] = "idle"]
    /\ UNCHANGED srvVars
    /\ UNCHANGED <<clients, writing, mutex, nextPool, pools, facSeq, grp, url,
                   cpool, nCalls, crashed, everReg, nStores, rgRet, raced,
                   facCalls, facFails, miss, made, late>>

\* ------------------------------------------------------------ specification
\* The steps inside registerGroup and getClient.
ProviderStep ==
    \/ \E p \in Procs : rg146(p)
    \/ \E p \in Procs : rg147(p)
    \/ \E p \in Procs : rg150(p)
    \/ \E p \in Procs : rg151(p)
    \/ \E p \in Procs : rg151w(p)
    \/ \E p \in Procs : rg155(p)
    \/ \E p \in Procs : fatalMapRace(p)
    \/ \E p \in Procs : gc160(p)
    \/ \E p \in Procs : gc185(p)
    \/ \E p \in Procs : gc185nil(p)
    \/ \E p \in Procs : gc189(p)
    \/ \E p \in Procs : gc192(p)

\* The provider under concurrent callers.
Next ==
    \/ \E p \in Procs, g \in Groups : registerGroup(p, g)
    \/ \E p \in Procs, g \in Groups : getClient(p, g)
    \/ ProviderStep

Spec == Init /\ [][Next]_vars

\* ---------------------------------------------------------- server assembly
\* filterExposedApis(allApis, exposedModules): with an empty list the modules
\* marked public; else the listed modules, an error if one of them is unknown.
filterExposedApis(allApis, exposedModules) ==
    LET names == {a.name : a \in allApis} IN
    IF exposedModules = <<>>
    THEN [err |-> FALSE, apis |-> {a.name : a \in {b \in allApis : b.public}}]
    ELSE IF Range(exposedModules) \subseteq names
    THEN [err |-> FALSE, apis |-> Range(exposedModules)]
    ELSE [err |-> TRUE, apis |-> {}]

\* httpMiddleware(registry, clientProvider): the rate limiting middleware of
\* one rate registry.
httpMiddleware(registry) == registry

\* rpc.MustNewServer(name, apis, middlewares...)
MustNewServer(name, apis, middlewares) ==
    [built |-> TRUE, name |-> name, apis |-> apis, middleware |-> middlewares]

\* MustNewNativeSpaceServer leaving the middleware out of MustNewServer
MustNewNativeSpaceServer_NoMiddleware(allApis, exposedModules) ==
    LET f == filterExposedApis(allApis, exposedModules) IN
    IF f.err THEN Fatal
    ELSE Returned(MustNewServer(nativeSpaceRpcServerName, f.apis, <<>>))

\* MustNewNativeSpaceServer handing allApis, not exposedApis, to MustNewServer
MustNewNativeSpaceServer_AllApis(allApis, exposedModules) ==
    LET f == filterExposedApis(allApis, exposedModules) IN
    IF f.err THEN Fatal
    ELSE Returned(MustNewServer(nativeSpaceRpcServerName,
                                {a.name : a \in allApis},
                                <<httpMiddleware("DefaultRegistryCfx")>>))

\* part_001 lines 22-40.  nativeSpaceApis returns no error.
MustNewNativeSpaceServer(allApis, exposedModules) ==
    LET f == filterExposedApis(allApis, exposedModules) IN
    IF f.err THEN Fatal
    ELSE Returned(MustNewServer(nativeSpaceRpcServerName, f.apis,
                                <<httpMiddleware("DefaultRegistryCfx")>>))

\* MustNewEvmSpaceServer leaving the middleware out of MustNewServer
MustNewEvmSpaceServer_NoMiddleware(apisErr, allApis, exposedModules) ==
    LET f == filterExposedApis(allApis, exposedModules) IN
    IF apisErr THEN Fatal
    ELSE IF f.err THEN Fatal
    ELSE Returned(MustNewServer(evmSpaceRpcServerName, f.apis, <<>>))

\* MustNewEvmSpaceServer logging the errors without Fatal, and going on
MustNewEvmSpaceServer_NoFatal(apisErr, allApis, exposedModules) ==
    LET f == filterExposedApis(allApis, exposedModules) IN
    Returned(MustNewServer(evmSpaceRpcServerName, f.apis,
                           <<httpMiddleware("DefaultRegistryEth")>>))

\* part_001 lines 45-65.  apisErr: evmSpaceApis returned an error.
MustNewEvmSpaceServer(apisErr, allApis, exposedModules) ==
    LET f == filterExposedApis(allApis, exposedModules) IN
    IF apisErr THEN Fatal
    ELSE IF f.err THEN Fatal
    ELSE Returned(MustNewServer(evmSpaceRpcServerName, f.apis,
                                <<httpMiddleware("DefaultRegistryEth")>>))

\* part_001 lines 74-86.  apisErr: nativeSpaceBridgeApis returned an error.
\* The server is made without a middleware.
MustNewNativeSpaceBridgeServer(apisErr, allApis, exposedModules) ==
    LET f == filterExposedApis(allApis, exposedModules) IN
    IF apisErr THEN Fatal
    ELSE IF f.err THEN Fatal
    ELSE Returned(MustNewServer(nativeSpaceBridgeRpcServerName, f.apis, <<>>))

\* The process gets the server an assembly function returns, or has exited.
Assemble(s, args, out) ==
    /\ asmIn' = [asmIn EXCEPT ![s] = args]
    /\ server' = [server EXCEPT ![s] = out.server]
    /\ exited' = out.fatal
    /\ UNCHANGED <<limit, used, dispatched>>
    /\ UNCHANGED extVars
    /\ UNCHANGED provVars

newNativeSpaceServer(allApis, exposedModules) ==
    /\ ~exited /\ ~crashed
    /\ ~asmIn["native"].called
    /\ Assemble("native", Args(FALSE, allApis, exposedModules),
                MustNewNativeSpaceServer(allApis, exposedModules))

newEvmSpaceServer(apisErr, allApis, exposedModules) ==
    /\ ~exited /\ ~crashed
    /\ ~asmIn["evm"].called
    /\ Assemble("evm", Args(apisErr, allApis, exposedModules),
                MustNewEvmSpaceServer(apisErr, allApis, exposedModules))

newNativeSpaceBridgeServer(apisErr, allApis, exposedModules) ==
    /\ ~exited /\ ~crashed
    /\ ~asmIn["bridge"].called
    /\ Assemble("bridge", Args(apisErr, allApis, exposedModules),
                MustNewNativeSpaceBridgeServer(apisErr, allApis, exposedModules))

\* Assembly alone, over every configuration.
NextAsm ==
    \/ \E a \in ApiSets, x \in ExposedLists : newNativeSpaceServer(a, x)
    \/ \E e \in BOOLEAN, a \in ApiSets, x \in ExposedLists :
          newEvmSpaceServer(e, a, x)
    \/ \E e \in BOOLEAN, a \in ApiSets, x \in ExposedLists :
          newNativeSpaceBridgeServer(e, a, x)

SpecAsm == Init /\ [][NextAsm]_vars

\* ------------------------------------------------------------------ serving
RECURSIVE SumCalls(_)
SumCalls(n) == IF n = 0 THEN 0 ELSE nCalls[n] + SumCalls(n - 1)
TotalCalls == SumCalls(NumProcs)

\* The rate limit check of the middleware chain: a server without middleware
\* checks nothing, a registry admits calls up to its quota.
Admitted(s) == \A r \in Range(server[s].middleware) : used[r] < limit[r]

Admit(s) ==
    /\ used' = [r \in Registries |->
                  IF r \in Range(server[s].middleware) THEN used[r] + 1 ELSE used[r]]
    /\ UNCHANGED <<server, asmIn, exited, limit>>
    /\ UNCHANGED extVars

Inbound(p, s) ==
    /\ server[s].built
    /\ TotalCalls < MaxInbound

\* The middleware rejects the call: no handler runs.
Throttled(p, s) ==
    /\ Inbound(p, s)
    /\ ~Admitted(s)
    /\ Begin(p, grp[p], "idle", ErrRateLimited)
    /\ UNCHANGED srvVars
    /\ UNCHANGED <<clients, writing, mutex, nextPool, pools, facSeq, crashed,
                   everReg, nStores, rgRet, raced, facCalls, facFails>>

\* The call names a module the server does not expose.
NotExposed(p, s, m) ==
    /\ Inbound(p, s)
    /\ Admitted(s)
    /\ m \notin server[s].apis
    /\ Begin(p, grp[p], "idle", ErrMethodNotFound)
    /\ Admit(s)
    /\ UNCHANGED dispatched
    /\ UNCHANGED <<clients, writing, mutex, nextPool, pools, facSeq, crashed,
                   everReg, nStores, rgRet, raced, facCalls, facFails>>

\* A handler of the native or EVM space runs: it asks the provider for a client.
Dispatch(p, s, m) ==
    /\ s # "bridge"
    /\ Inbound(p, s)
    /\ Admitted(s)
    /\ m \in server[s].apis
    /\ Begin(p, GroupOf(s), "gc160", None)
    /\ Admit(s)
    /\ dispatched' = [dispatched EXCEPT ![s] = @ + 1]
    /\ UNCHANGED <<clients, writing, mutex, nextPool, pools, facSeq, crashed,
                   everReg, nStores, rgRet, raced, facCalls, facFails>>

\* A handler of the bridge runs: it uses its own two nodes, not a provider.
DispatchBridge(p, m) ==
    /\ Inbound(p, "bridge")
    /\ Admitted("bridge")
    /\ m \in server["bridge"].apis
    /\ Begin(p, grp[p], "idle", Served)
    /\ Admit("bridge")
    /\ dispatched' = [dispatched EXCEPT !["bridge"] = @ + 1]
    /\ UNCHANGED <<clients, writing, mutex, nextPool, pools, facSeq, crashed,
                   everReg, nStores, rgRet, raced, facCalls, facFails>>

InitServe == InitBase /\ limit \in [Registries -> 0..MaxQuota]

\* The three servers, assembled with the default configuration, serving calls.
NextServe ==
    \/ newNativeSpaceServer(ApiDescs, <<>>)
    \/ newEvmSpaceServer(FALSE, ApiDescs, <<>>)
    \/ newNativeSpaceBridgeServer(FALSE, ApiDescs, <<>>)
    \/ \E p \in Procs, g \in Groups :
          TotalCalls < MaxInbound /\ registerGroup(p, g)
    \/ \E p \in Procs, s \in Spaces : Throttled(p, s)
    \/ \E p \in Procs, s \in Spaces, m \in {a.name : a \in ApiDescs} :
          NotExposed(p, s, m)
    \/ \E p \in Procs, s \in Spaces, m \in {a.name : a \in ApiDescs} :
          Dispatch(p, s, m)
    \/ \E p \in Procs, m \in {a.name : a \in ApiDescs} : DispatchBridge(p, m)
    \/ ProviderStep

SpecServe == InitServe /\ [][NextServe]_vars

\* ------------------------------------------------------------- cancellation
\* The context of the inbound call that goroutine p serves is canceled while
\* the call is inside LoadOrStoreFnErr, creating or awaiting a creation.
\* getClient(key, group) and clientFactory(url) take no context: nothing in
\* the call reads the cancellation.
cancel(p) ==
    /\ ~crashed /\ ~exited
    /\ pc[p] \in {"gc185w", "gc189"}
    /\ canceled[p] # nCalls[p]
    /\ canceled' = [canceled EXCEPT ![p] = nCalls[p]]
    /\ UNCHANGED <<addrLog, e2bVars, openVars, partVars>>
    /\ UNCHANGED provVars
    /\ UNCHANGED <<server, asmIn, exited, limit, used, dispatched>>

\* Every step but the return of p.factory(url): the Go scheduler runs a
\* goroutine that can run; when a connection attempt ends lies with the
\* network and the full node.
Scheduled ==
    \/ \E p \in Procs, g \in Groups : registerGroup(p, g)
    \/ \E p \in Procs, g \in Groups : getClient(p, g)
    \/ \E p \in Procs : rg146(p) \/ rg147(p) \/ rg150(p) \/ rg151(p)
    \/ \E p \in Procs : rg151w(p) \/ rg155(p)
    \/ \E p \in Procs : gc160(p) \/ gc185(p) \/ gc192(p)
    \/ \E p \in Procs : cancel(p)

NextCancel ==
    \/ Next
    \/ \E p \in Procs : cancel(p)

\* The provider with callers that cancel, under the scheduler's fairness.
SpecCancel == Init /\ [][NextCancel]_vars /\ WF_vars(Scheduled)

\* ---------------------------------------------------------- caller identity
\* What a context holds under the key of the caller's IP address: nothing, or
\* a string (which a client can make anything, the empty string too).
IPs == {"", "10.0.0.1", "::1", "unknown_ip"}
Contexts == {[set |-> FALSE, ip |-> ""]} \cup {[set |-> TRUE, ip |-> a] : a \in IPs}

\* handlers.GetIPAddressFromContext(ctx): the stored string and true, or the
\* zero string and false.
GetIPAddressFromContext(ctx) ==
    [ip |-> IF ctx.set THEN ctx.ip ELSE "", ok |-> ctx.set]

\* remoteAddrFromContext handing on what GetIPAddressFromContext returned,
\* without looking at ok
remoteAddrFromContext_NoSentinel(ctx) == GetIPAddressFromContext(ctx).ip

\* lines 206-212
remoteAddrFromContext(ctx) ==
    LET r == GetIPAddressFromContext(ctx) IN
    IF r.ok THEN r.ip ELSE "unknown_ip"

\* The middleware asks for the caller's address of one inbound call.
remoteAddr(ctx) ==
    /\ Len(addrLog) < MaxCtx
    /\ addrLog' = Append(addrLog, [ctx |-> ctx, addr |-> remoteAddrFromContext(ctx)])
    /\ UNCHANGED <<canceled, e2bVars, openVars, partVars>>
    /\ UNCHANGED provVars
    /\ UNCHANGED <<server, asmIn, exited, limit, used, dispatched>>

NextAddr == \E ctx \in Contexts : remoteAddr(ctx)

SpecAddr == Init /\ [][NextAddr]_vars

\* ------------------------------------------------------ epoch to block map
\* store.EpochData as far as Pushn reads it: the epoch number and the blocks
\* of the epoch, the pivot block last.
Block(n, h) == [BlockNumber |-> n, Hash |-> h]
BlockLists == {<<Block(10, "0xa")>>, <<Block(10, "0xa"), Block(11, "0xb")>>}
EpochDatas == [Number : 1..MaxEpoch, Blocks : BlockLists]
DataSlices == UNION {[1..n -> EpochDatas] : n \in 0..MaxSlice}

GetPivotBlock(data) == data.Blocks[Len(data.Blocks)]

\* lines 88-96: the row made of one store.EpochData
Mapping(data) ==
    [Epoch |-> data.Number,
     BnMin |-> data.Blocks[1].BlockNumber,
     BnMax |-> GetPivotBlock(data).BlockNumber,
     PivotHash |-> GetPivotBlock(data).Hash]

defaultBatchSizeMappingInsert == 1000

Min(a, b) == IF a < b THEN a ELSE b

\* The rows a table gets from an INSERT of a batch: each takes the next ID.
Inserted(table, batch) ==
    table \o [i \in 1..Len(batch) |->
                [ID |-> Len(table) + i] @@ batch[i]]

\* line 18, gorm:"index:unique": the index on epoch is a unique index, so an
\* INSERT that would leave two rows with one epoch fails as a whole.
DuplicateEntry(table, batch) ==
    \/ \E i \in 1..Len(table), j \in 1..Len(batch) : table[i].Epoch = batch[j].Epoch
    \/ \E i, j \in 1..Len(batch) : i # j /\ batch[i].Epoch = batch[j].Epoch

\* gorm's CreateInBatches: one INSERT per batchSize rows, all of them in one
\* transaction, which is rolled back at the first error.
RECURSIVE CreateBatches(_, _, _, _)
CreateBatches(old, table, mappings, batchSize) ==
    IF mappings = <<>> THEN [err |-> FALSE, table |-> table]
    ELSE LET n == Min(batchSize, Len(mappings))
             batch == SubSeq(mappings, 1, n)
             rest == SubSeq(mappings, n + 1, Len(mappings))
         IN IF DuplicateEntry(table, batch)
            THEN [err |-> TRUE, table |-> old]
            ELSE CreateBatches(old, Inserted(table, batch), rest, batchSize)

CreateInBatches(table, mappings, batchSize) ==
    CreateBatches(table, table, mappings, batchSize)

\* Pushn on a table whose index on epoch is an ordinary index
Pushn_PlainIndex(table, dataSlice) ==
    [err |-> FALSE,
     table |-> Inserted(table, [i \in 1..Len(dataSlice) |-> Mapping(dataSlice[i])])]

\* lines 85-103
Pushn(table, dataSlice) ==
    LET mappings == [i \in 1..Len(dataSlice) |-> Mapping(dataSlice[i])] IN
    IF Len(mappings) = 0 THEN [err |-> FALSE, table |-> table]
    ELSE CreateInBatches(table, mappings, defaultBatchSizeMappingInsert)

\* The rows exists(&e2bmap, "epoch = ?", epoch) can load.
RowsOf(epoch) == {i \in 1..Len(e2bTable) : e2bTable[i].Epoch = epoch}

\* lines 59-70: the answers BlockRange(epoch) can give
BlockRange(epoch) ==
    IF RowsOf(epoch) = {} THEN {[From |-> 0, To |-> 0, existed |-> FALSE]}
    ELSE {[From |-> e2bTable[i].BnMin, To |-> e2bTable[i].BnMax, existed |-> TRUE] :
             i \in RowsOf(epoch)}

\* lines 73-82: the answers pivotHash(epoch) can give
pivotHash(epoch) ==
    IF RowsOf(epoch) = {} THEN {[hash |-> "", existed |-> FALSE]}
    ELSE {[hash |-> e2bTable[i].PivotHash, existed |-> TRUE] : i \in RowsOf(epoch)}

\* One call of Pushn, committed.
push(dataSlice) ==
    /\ nPush < MaxPush
    /\ LET out == Pushn(e2bTable, dataSlice) IN
       /\ e2bTable' = out.table
       /\ pushErr' = out.err
    /\ nPush' = nPush + 1
    /\ pushIn' = dataSlice
    /\ UNCHANGED <<canceled, addrLog, openVars, partVars>>
    /\ UNCHANGED provVars
    /\ UNCHANGED <<server, asmIn, exited, limit, used, dispatched>>

NextPush == \E dataSlice \in DataSlices : push(dataSlice)

SpecPush == Init /\ [][NextPush]_vars

\* --------------------------------------------------------- opening the store
\* The tables MustOpenOrCreate creates, in the order of line 56.
SchemaTables == <<"transaction", "block", "log", "epochStats", "conf">>

\* What the steps of MustOpenOrCreate leave alone.
OpenFrame ==
    /\ UNCHANGED <<canceled, addrLog, e2bVars, partVars>>
    /\ UNCHANGED provVars
    /\ UNCHANGED <<server, asmIn, exited, limit, used, dispatched>>

\* logrus Fatal: the process ends; what it did to the database server stays.
FatalEnd ==
    /\ opc' = "down"
    /\ UNCHANGED <<dbExists, tables, partitioned, newCreated, nStarts>>
    /\ OpenFrame

\* A step of MustOpenOrCreate that only moves on.
GoTo(to) ==
    /\ opc' = to
    /\ UNCHANGED <<dbExists, tables, partitioned, newCreated, nStarts>>
    /\ OpenFrame

\* The process starts and calls MustOpenOrCreate (line 50), which calls
\* mustCreateDatabaseIfAbsent (line 51).
startProcess ==
    /\ opc = "down"
    /\ nStarts < MaxStarts
    /\ nStarts' = nStarts + 1
    /\ opc' = "oc114"
    /\ newCreated' = FALSE
    /\ UNCHANGED <<dbExists, tables, partitioned>>
    /\ OpenFrame

\* line 114, mustNewDB(""), lines 102-108: gorm.Open fails and ends the
\* process, or gives a connection
oc114 ==
    /\ opc = "oc114"
    /\ \E ok \in BOOLEAN : IF ok THEN GoTo("oc115") ELSE FatalEnd

\* lines 115-119: db.DB() fails and mustCreateDatabaseIfAbsent returns false,
\* or it goes on to the query
oc115 ==
    /\ opc = "oc115"
    /\ \E ok \in BOOLEAN : IF ok THEN GoTo("oc121") ELSE GoTo("oc53")

\* lines 121-129: SHOW DATABASES fails and ends the process; a row means the
\* database exists and false is returned
oc121 ==
    /\ opc = "oc121"
    /\ \E ok \in BOOLEAN :
          IF ~ok THEN FatalEnd
          ELSE IF dbExists THEN GoTo("oc53") ELSE GoTo("oc131")

\* lines 131-137: CREATE DATABASE fails and ends the process, or the database
\* is created and true is returned
oc131 ==
    /\ opc = "oc131"
    /\ \E ok \in BOOLEAN :
          IF ~ok THEN FatalEnd
          ELSE /\ dbExists' = TRUE
               /\ newCreated' = TRUE
               /\ opc' = "oc53"
               /\ UNCHANGED <<tables, partitioned, nStarts>>
               /\ OpenFrame

\* line 53, mustNewDB(config.Database): gorm.Open fails (it must when the
\* database does not exist) and ends the process, or gives a connection;
\* line 55: the tables are created only when newCreated
oc53 ==
    /\ opc = "oc53"
    /\ \E ok \in BOOLEAN :
          IF ~ok \/ ~dbExists THEN FatalEnd
          ELSE IF newCreated THEN GoTo("oc56") ELSE GoTo("oc65")

\* lines 56-58: CreateTable creates the tables one statement after the other;
\* when statement k + 1 fails the k tables before it exist and the process ends
oc56 ==
    /\ opc = "oc56"
    /\ \E k \in 0..Len(SchemaTables) :
          /\ tables' = k
          /\ opc' = IF k = Len(SchemaTables) THEN "oc60" ELSE "down"
          /\ UNCHANGED <<dbExists, partitioned, newCreated, nStarts>>
          /\ OpenFrame

\* lines 60-62: initLogsPartitions fails and ends the process, or the logs
\* table is partitioned
oc60 ==
    /\ opc = "oc60"
    /\ \E ok \in BOOLEAN :
          IF ~ok THEN FatalEnd
          ELSE /\ partitioned' = TRUE
               /\ opc' = "oc65"
               /\ UNCHANGED <<dbExists, tables, newCreated, nStarts>>
               /\ OpenFrame

\* lines 65-75: db.DB() fails and ends the process, or the pool is set up and
\* the store is returned
oc65 ==
    /\ opc = "oc65"
    /\ \E ok \in BOOLEAN : IF ok THEN GoTo("opened") ELSE FatalEnd

\* The process that holds the store ends; the database server stays.
stopProcess ==
    /\ opc = "opened"
    /\ GoTo("down")

NextOpen ==
    \/ startProcess
    \/ oc114
    \/ oc115
    \/ oc121
    \/ oc131
    \/ oc53
    \/ oc56
    \/ oc60
    \/ oc65
    \/ stopProcess

SpecOpen == Init /\ [][NextOpen]_vars

\* ------------------------------------------------------- initLogsPartitions
\* One partition definition of the ALTER TABLE statement: the name, and the
\* bound of VALUES LESS THAN, a number or MAXVALUE.
Partition(name, max, bound) == [name |-> name, max |-> max, bound |-> bound]

\* The line with its bound a range too low: i*LogsTablePartitionRangeSize
PartitionLine_FromZero(i, size) == Partition(<<"logs", i>>, FALSE, i * size)

\* line 145: "PARTITION logs%v VALUES LESS THAN (%v)," of i and
\* (i+1)*LogsTablePartitionRangeSize.  The product is a uint64; with the sizes
\* drawn here it stays far below 2^64.
PartitionLine(i, size) == Partition(<<"logs", i>>, FALSE, (i + 1) * size)

\* line 149: "PARTITION logsow VALUES LESS THAN MAXVALUE);"
OverflowLine == Partition(<<"logsow">>, TRUE, 0)

\* What the steps of initLogsPartitions leave alone.
PartFrame ==
    /\ UNCHANGED <<canceled, addrLog, e2bVars, openVars>>
    /\ UNCHANGED provVars
    /\ UNCHANGED <<server, asmIn, exited, limit, used, dispatched>>

\* lines 140-142: the call, with the package constants n and size
initLogsPartitions(n, size) ==
    /\ ppc = "idle"
    /\ partsNum' = n
    /\ rangeSize' = size
    /\ partI' = 0
    /\ sqlLines' = <<>>
    /\ ppc' = "pl144"
    /\ UNCHANGED logsParts
    /\ PartFrame

\* lines 144-147: one turn of the loop
pl144 ==
    /\ ppc = "pl144"
    /\ partI < partsNum
    /\ sqlLines' = Append(sqlLines, PartitionLine(partI, rangeSize))
    /\ partI' = partI + 1
    /\ UNCHANGED <<ppc, partsNum, rangeSize, logsParts>>
    /\ PartFrame

\* line 149: the loop has ended, the overflow partition is appended
pl149 ==
    /\ ppc = "pl144"
    /\ ~(partI < partsNum)
    /\ sqlLines' = Append(sqlLines, OverflowLine)
    /\ ppc' = "pl154"
    /\ UNCHANGED <<partsNum, rangeSize, partI, logsParts>>
    /\ PartFrame

\* lines 151-154: the lines are joined and the statement is executed; the
\* database either applies it or returns an error
pl154 ==
    /\ ppc = "pl154"
    /\ \E ok \in BOOLEAN :
          /\ logsParts' = IF ok THEN sqlLines ELSE logsParts
          /\ ppc' = IF ok THEN "done" ELSE "failed"
    /\ UNCHANGED <<partsNum, rangeSize, partI, sqlLines>>
    /\ PartFrame

NextPart ==
    \/ \E n \in 0..MaxParts, size \in 1..MaxRangeSize : initLogsPartitions(n, size)
    \/ pl144
    \/ pl149
    \/ pl154

SpecPart == Init /\ [][NextPart]_vars

\* ================================================================== claims
\* Two calls of getClient on one pool and one node name.
SameNode(p, q) ==
    /\ cpool[p] = cpool[q]
    /\ Url2NodeName(url[p]) = Url2NodeName(url[q])

\* p and q are both inside getClient, each holding what LoadOrStoreFnErr gave
\* it, both routed to the same URL of the same group while it was not cached.
ConcurrentFirst(p, q) ==
    /\ p # q
    /\ pc[p] = "gc192" /\ pc[q] = "gc192"
    /\ grp[p] = grp[q] /\ url[p] = url[q]
    /\ miss[p] /\ miss[q]

\* C1 (as stated): concurrent getClient calls routed to the same URL of a node
\* name that is not cached invoke the factory exactly once, and all of them
\* get the same client or the same error.
C1_ExactlyOneInvocation ==
    \A p, q \in Procs :
        ConcurrentFirst(p, q) => res[p] = res[q] /\ ~(made[p] /\ made[q])

\* C1 (amended): at most one factory invocation per node name is under way at
\* any time; a call that finds one under way waits for it and invokes nothing;
\* concurrent calls that get a client get the same client; a second invocation
\* happens only after a failed one, and the factory is invoked once when its
\* first invocation succeeds.
C1_AtMostOneCreation ==
    /\ \A p, q \in Procs :
          p # q /\ pc[p] = "gc189" /\ pc[q] = "gc189" => ~SameNode(p, q)
    /\ \A q \in Procs :
          pc[q] = "gc185w" =>
             /\ ~made[q]
             /\ \E p \in Procs : pc[p] = "gc189" /\ SameNode(p, q)
    /\ \A p, q \in Procs :
          ConcurrentFirst(p, q) =>
             /\ res[p].k = "client" /\ res[q].k = "client" => res[p] = res[q]
             /\ made[p] /\ made[q] => res[p].k = "err" \/ res[q].k = "err"
    /\ \A k \in Groups \X Nodes : facCalls[k] <= facFails[k] + 1

\* C1 witness: two concurrent first calls, one invoked the factory, the other
\* did not, and both hold the one client.
C1_Witness ==
    \E p, q \in Procs :
        /\ ConcurrentFirst(p, q)
        /\ made[p] /\ ~made[q]
        /\ res[p].k = "client" /\ res[q] = res[p]
        /\ facCalls[Key(p)] = 1

\* The pool of group g: the one in the map, or the one being stored.
PoolOf(g) == IF writing.g = g THEN writing.pool ELSE clients[g]

\* C2 (as stated): exactly one pool is ever stored for a group, every
\* registerGroup(g) returns that pool, and a call that begins after a
\* registerGroup(g) has returned uses that pool.
C2_GroupIdempotence ==
    /\ \A g \in Groups :
          /\ nStores[g] <= 1
          /\ \A v \in rgRet[g] : v # NoPool /\ v = PoolOf(g)
    /\ \A p \in Procs :
          late[p] =>
             /\ res[p] # ErrUnknownGroup
             /\ url[p] # NotRouted => cpool[p] = PoolOf(grp[p])

\* C3 (as stated): no read of the group map without the mutex overlaps a write
\* of the map.
C3_NoUnsynchronizedRead == ~raced

\* The slot of node n in the pool of group g.
SlotOf(g, n) == IF PoolOf(g) = NoPool THEN Absent ELSE pools[PoolOf(g)][n]

\* What the pools and the factory have seen so far.
Cache == <<clients, nextPool, pools, facSeq, facCalls>>

\* A factory failure leaves nothing in the cache: no slot holds an error, and
\* every invocation made for a node has failed, except the one whose creation
\* is under way or whose client is stored.
C4_NothingCached ==
    /\ \A i \in PoolIds, n \in Nodes : pools[i][n].k \in {"absent", "inflight", "client"}
    /\ \A g \in Groups, n \in Nodes :
          facCalls[<<g, n>>] =
             facFails[<<g, n>>] + (IF SlotOf(g, n).k = "absent" THEN 0 ELSE 1)
    /\ \A p \in Procs :
          pc[p] = "gc192" /\ made[p] /\ res[p].k = "client" => Slot(p) = res[p]

\* A getClient that enters LoadOrStoreFnErr for a node whose creation has
\* failed before, and that is neither stored nor under way, invokes the factory.
C4_Retry ==
    \A p \in Procs :
        (/\ pc[p] = "gc185" /\ pc'[p] # "gc185"
         /\ cpool[p] # NoPool
         /\ Slot(p).k = "absent"
         /\ facFails[Key(p)] > 0)
        => /\ pc'[p] = "gc189" /\ made'[p]
           /\ facCalls'[Key(p)] = facCalls[Key(p)] + 1

\* C4: a failed creation caches nothing for the node and a later getClient
\* routed to it invokes the factory again; when that invocation succeeds the
\* call returns the client and the client is cached.
C4_RetryAfterFailure == []C4_NothingCached /\ [][C4_Retry]_vars

\* C4 witness: the factory failed once for a node, a later call invoked it
\* again, holds the new client, and the client is cached.
C4_Witness ==
    \E p \in Procs :
        /\ pc[p] = "gc192" /\ made[p] /\ res[p].k = "client"
        /\ facFails[Key(p)] = 1 /\ facCalls[Key(p)] = 2
        /\ Slot(p) = res[p]

\* A call the router answered with the empty URL has ended with
\* ErrClientUnavailable and has not invoked the factory.
C5_Unavailable ==
    \A p \in Procs :
        url[p] = "" =>
           /\ pc[p] = "idle"
           /\ res[p] = ErrClientUnavailable
           /\ ~made[p]

\* The step in which the router answers with the empty URL changes no pool.
C5_Untouched ==
    \A p \in Procs :
        url[p] # "" /\ url'[p] = "" => UNCHANGED Cache

\* C5: when Router.Route returns the empty URL for a registered group,
\* getClient returns ErrClientUnavailable, invokes the factory zero times and
\* leaves every pool unchanged.
C5_RoutingFailureIsolation == []C5_Unavailable /\ [][C5_Untouched]_vars

\* C5 witness: a call on a registered group was routed to the empty URL while
\* another node of the group is cached.
C5_Witness ==
    \E p \in Procs :
        /\ url[p] = "" /\ res[p] = ErrClientUnavailable
        /\ grp[p] \in everReg
        /\ \E n \in Nodes : SlotOf(grp[p], n).k = "client"

\* The last call of p was getClient on a group never passed to registerGroup,
\* and it is past the lookup of line 160.
UnknownGroupCall(p) ==
    /\ nCalls[p] > 0
    /\ grp[p] \notin everReg
    /\ pc[p] # "gc160"

\* Such a call has ended with the unknown-group error, without the router and
\* without the factory, and the group has no pool.
C6_Unknown ==
    \A p \in Procs :
        UnknownGroupCall(p) =>
           /\ pc[p] = "idle"
           /\ res[p] = ErrUnknownGroup
           /\ url[p] = NotRouted
           /\ ~made[p]
           /\ clients[grp[p]] = NoPool /\ nStores[grp[p]] = 0

\* The lookup of a group never passed to registerGroup changes no pool.
C6_Untouched ==
    \A p \in Procs :
        pc[p] = "gc160" /\ pc'[p] # "gc160" /\ grp[p] \notin everReg
        => UNCHANGED Cache

\* C6: getClient on a group that was never passed to registerGroup returns the
\* unknown-group error and touches no pool: no pool is created for the group,
\* no pool changes, neither the router nor the factory is invoked.
C6_UnknownGroup == []C6_Unknown /\ [][C6_Untouched]_vars

\* C6 witness: another group has a pool with a cached client, and a getClient
\* on a group that was never registered has returned the unknown-group error.
C6_Witness ==
    \E p \in Procs :
        /\ UnknownGroupCall(p) /\ res[p] = ErrUnknownGroup
        /\ \E g \in Groups, n \in Nodes : SlotOf(g, n).k = "client"

\* Inside getClient.
InGetClient(p) == pc[p] \in {"gc160", "gc185", "gc185w", "gc189", "gc192"}

\* C7: on the native and EVM servers a call the rate limiter rejects never
\* reaches getClient, and under a zero quota no inbound call causes a factory
\* invocation.
C7_RateLimitFirst ==
    /\ \A p \in Procs :
          res[p] = ErrRateLimited =>
             pc[p] = "idle" /\ url[p] = NotRouted /\ ~made[p]
    /\ \A s \in {"native", "evm"} :
          limit[RegistryOf(s)] = 0 =>
             /\ dispatched[s] = 0
             /\ \A p \in Procs : ~(InGetClient(p) /\ grp[p] = GroupOf(s))
             /\ \A n \in Nodes : facCalls[<<GroupOf(s), n>>] = 0

\* C7 witness: the native server is built, its group is registered, the quota
\* is zero, a call was rejected and the factory was never invoked.
C7_Witness ==
    /\ server["native"].built
    /\ clients["cfxhttp"] # NoPool
    /\ \A r \in Registries : limit[r] = 0
    /\ \E p \in Procs : res[p] = ErrRateLimited
    /\ facSeq = 0

\* Calls on server s on which the rate limit check was made and passed.
Checked(s) ==
    IF server[s].middleware = <<>> THEN 0 ELSE used[server[s].middleware[1]]

Names(apis) == {a.name : a \in apis}

\* C9: a server that assembly returned exposes exactly the listed modules when
\* the list is not empty (all of them known), and exactly the modules marked
\* public when it is empty.
C9_ExposedModules ==
    \A s \in Spaces :
        server[s].built =>
           LET a == asmIn[s] IN
           IF a.exposedModules = <<>>
           THEN server[s].apis = Names({d \in a.allApis : d.public})
           ELSE /\ server[s].apis = Range(a.exposedModules)
                /\ server[s].apis \subseteq Names(a.allApis)

\* C9 witness: one server built with the empty list exposes cfx and not the
\* non-public trace, another built with a list exposes the listed trace.
C9_Witness ==
    \E s, t \in Spaces :
        /\ server[s].built /\ server[t].built
        /\ asmIn[s].exposedModules = <<>> /\ asmIn[s].allApis = ApiDescs
        /\ server[s].apis = {"cfx"}
        /\ asmIn[t].exposedModules # <<>> /\ "trace" \in server[t].apis

\* The arguments of the assembly of space s are a configuration error.
BadConfig(s) ==
    /\ asmIn[s].called
    /\ \/ asmIn[s].apisErr
       \/ ~(Range(asmIn[s].exposedModules) \subseteq Names(asmIn[s].allApis))

\* A configuration error has ended the process and returned no server.
C10_NoServer == \A s \in Spaces : BadConfig(s) => exited /\ server[s] = NoServer

\* Once the process has ended no server appears.
C10_Ended == exited => server' = server

\* C10: in each assembly function, when enumerating the modules fails or the
\* list names an unknown module the process ends before a server is made, and
\* no server is returned afterwards.
C10_FailFast == []C10_NoServer /\ [][C10_Ended]_vars

\* C10 witness: one server was built, then an assembly with an unknown module
\* in its list ended the process and returned nothing.
C10_Witness ==
    \E s, t \in Spaces :
        /\ server[t].built
        /\ asmIn[s].called /\ ~asmIn[s].apisErr
        /\ "nonexistent" \in Range(asmIn[s].exposedModules)
        /\ exited /\ server[s] = NoServer

\* A creation other than q's own is under way: another node name of q's pool,
\* or a node of another pool.
OtherCreation(q) == \E p \in Procs : p # q /\ pc[p] = "gc189" /\ ~SameNode(p, q)

\* A call waits only for a creation of its own node name in its own pool.
C11_WaitsForOwnNode ==
    \A q \in Procs :
        pc[q] = "gc185w" => \E p \in Procs : pc[p] = "gc189" /\ SameNode(p, q)

\* While another node is being created, a call that enters LoadOrStoreFnErr for
\* a node that is not being created goes on at once: it loads the cached
\* client or starts its own creation, and its own creation can finish.
C11_GoesOn ==
    \A q \in Procs :
        /\ (/\ pc[q] = "gc185" /\ pc'[q] # "gc185"
            /\ cpool[q] # NoPool
            /\ OtherCreation(q)
            /\ Slot(q).k # "inflight")
           => pc'[q] \in {"gc189", "gc192"}
        /\ (pc[q] = "gc189" /\ OtherCreation(q) /\ ~crashed) => ENABLED gc189(q)

\* C11: while the factory is creating the connection of node name A, a
\* getClient routed to another node name, or to a node of another group, is
\* never made to wait for A's creation and can complete before it ends.
C11_NoHeadOfLineBlocking == []C11_WaitsForOwnNode /\ [][C11_GoesOn]_vars

\* C11 witness: the creation p began is still under way, and q, whose call
\* invoked the factory for another node of the same pool after p's invocation,
\* has returned with its client.
C11_Witness ==
    \E p, q \in Procs :
        /\ pc[p] = "gc189" /\ Slot(p).k = "inflight"
        /\ pc[q] = "idle" /\ res[q].k = "client" /\ made[q]
        /\ cpool[q] = cpool[p] /\ ~SameNode(p, q)
        /\ res[q].id > Slot(p).id

\* A getClient of p has succeeded: p holds the client it returns or returned.
Succeeded(p) == pc[p] \in {"gc192", "idle"} /\ res[p].k = "client"

\* Every successful getClient holds the client cached for its node.
C12_ReturnsCached == \A p \in Procs : Succeeded(p) => res[p] = Slot(p)

\* A cached client is never removed or replaced, the pool of a group is never
\* replaced, and the factory is not invoked for a node whose client is cached.
C12_Kept ==
    /\ \A i \in PoolIds, n \in Nodes :
          pools[i][n].k = "client" => pools'[i][n] = pools[i][n]
    /\ \A g \in Groups : clients[g] # NoPool => clients'[g] = clients[g]
    /\ \A g \in Groups, n \in Nodes :
          SlotOf(g, n).k = "client" => facCalls'[<<g, n>>] = facCalls[<<g, n>>]

\* C12: getClient never removes or replaces a cached client; once a getClient
\* has succeeded for node X of group g with client c, every later successful
\* getClient routed to X in g returns c and the factory is not invoked again
\* for (g, X).
C12_StableCache == []C12_ReturnsCached /\ [][C12_Kept]_vars

\* C12 witness: p got its client from the factory in its first call, q got
\* the same client from the cache in its second call, another creation of the
\* group has failed since, and the factory was invoked once for the node.
C12_Witness ==
    \E p, q \in Procs :
        /\ p # q /\ Succeeded(p) /\ Succeeded(q)
        /\ made[p] /\ ~made[q] /\ ~miss[q] /\ nCalls[q] = 2
        /\ res[q] = res[p] /\ grp[p] = grp[q]
        /\ facCalls[Key(q)] = 1
        /\ \E n \in Nodes : facFails[<<grp[q], n>>] > 0

\* A getClient of p has returned.
ReturnedFromGetClient(p) ==
    pc[p] = "idle" /\ res[p].k \in {"client", "err", "connErr", "unavailable",
                                     "unknownGroup"}

\* What a returned getClient hands back tells what happened in the call: the
\* unknown-group error when the router was not asked, ErrClientUnavailable when
\* the router answered with the empty URL, the wrapped cause when the factory
\* failed, and never the bare cause.
C13_Outcome ==
    \A p \in Procs :
        ReturnedFromGetClient(p) =>
           /\ res[p].k # "err"
           /\ (res[p] = ErrUnknownGroup) <=> (url[p] = NotRouted)
           /\ (res[p] = ErrClientUnavailable) <=> (url[p] = "")
           /\ (res[p].k = "connErr") <=>
                 /\ url[p] \notin {NotRouted, ""}
                 /\ res[p].k # "client"
           /\ res[p].k = "connErr" =>
                 /\ res[p].id \in 1..facSeq
                 /\ facFails[Key(p)] > 0
                 /\ \A i \in PoolIds, n \in Nodes : pools[i][n].id # res[p].id

\* The error the factory returned leaves getClient wrapped, with its cause.
C13_Wraps ==
    \A p \in Procs :
        pc[p] = "gc192" /\ res[p].k = "err" /\ pc'[p] = "idle"
        => res'[p] = Val("connErr", res[p].id)

\* C13: getClient returns ErrClientUnavailable if and only if the router
\* returned the empty URL; a factory failure is returned as another error, the
\* factory's cause wrapped, and an unknown group as a third one.
C13_DistinguishableErrors == []C13_Outcome /\ [][C13_Wraps]_vars

\* C13 witness: on one group, one call has returned the wrapped factory error
\* and another ErrClientUnavailable.
C13_Witness ==
    \E p, q \in Procs :
        /\ ReturnedFromGetClient(p) /\ ReturnedFromGetClient(q)
        /\ grp[p] = grp[q]
        /\ res[p].k = "connErr" /\ made[p]
        /\ res[q] = ErrClientUnavailable

\* The call p is in was canceled while it creates or awaits a creation.
CanceledInCreation(p) ==
    /\ canceled[p] = nCalls[p]
    /\ pc[p] \in {"gc185w", "gc189"}

\* p leaves LoadOrStoreFnErr while the creations under way stay under way.
LeavesCreation(p) ==
    /\ NextCancel
    /\ pc'[p] \notin {"gc185w", "gc189"}
    /\ pools' = pools

\* C14 (as stated): a getClient that is waiting for a connection to be created
\* when its inbound call is canceled returns without waiting for the creation
\* to end: in every such state the call has a step that takes it out of the
\* wait and leaves the creation under way.
C14_CanceledCallCanReturn ==
    \A p \in Procs :
        CanceledInCreation(p) /\ ~crashed => ENABLED LeavesCreation(p)

\* C14, as a liveness property under the scheduler's fairness: such a call
\* eventually returns, whether or not the creation ever ends.
C14_CanceledCallReturns ==
    \A p \in Procs : CanceledInCreation(p) ~> (pc[p] = "idle" \/ crashed)

\* C15: remoteAddrFromContext returns the IP stored in the context when there
\* is one and "unknown_ip" when there is none; every call returns a string.
C15_RemoteAddr ==
    \A i \in 1..Len(addrLog) :
        LET e == addrLog[i] IN
        /\ e.ctx.set => e.addr = e.ctx.ip
        /\ ~e.ctx.set => e.addr = "unknown_ip"
        /\ e.addr \in IPs

\* C15 witness: a context with an address and a context without one were both
\* answered, the second with the sentinel.
C15_Witness ==
    \E i, j \in 1..Len(addrLog) :
        /\ addrLog[i].ctx.set /\ addrLog[i].addr = "10.0.0.1"
        /\ ~addrLog[j].ctx.set /\ addrLog[j].addr = "unknown_ip"

\* The epochs of a dataSlice.
EpochsOf(dataSlice) == {dataSlice[i].Number : i \in 1..Len(dataSlice)}

BothSucceeded(p, q) == Succeeded(p) /\ Succeeded(q) /\ grp[p] = grp[q]

\* C17 (as stated): the router is consulted on every call and a call routed to
\* URL B never returns the client returned for another URL A.
C17_ClientPerUrl ==
    /\ \A p \in Procs :
          ReturnedFromGetClient(p) /\ res[p] # ErrUnknownGroup => url[p] \in Urls
    /\ \A p, q \in Procs :
          BothSucceeded(p, q) /\ url[p] # url[q] => res[p] # res[q]

\* C17 (amended): every getClient that finds its group asks the router, hit or
\* miss, and a successful call returns the client cached under the node name
\* of the URL the router returned in that call; calls routed to URLs with
\* different node names never return the same client, calls routed to URLs
\* with one node name return the same client.
C17_ClientPerNodeName ==
    /\ \A p \in Procs :
          ReturnedFromGetClient(p) /\ res[p] # ErrUnknownGroup => url[p] \in Urls
    /\ \A p \in Procs : Succeeded(p) => res[p] = Slot(p)
    /\ \A p, q \in Procs :
          BothSucceeded(p, q) =>
             (res[p] = res[q]) <=> (Url2NodeName(url[p]) = Url2NodeName(url[q]))

\* C17 witness: q was routed to the URL of one node and got its client; in its
\* second call, a cache hit, p was routed to another URL of the same node and
\* got the same client; the group holds another node's client as well.
C17_Witness ==
    \E p, q \in Procs :
        /\ BothSucceeded(p, q)
        /\ nCalls[p] = 2 /\ ~miss[p] /\ made[q]
        /\ url[p] # url[q] /\ res[p] = res[q]
        /\ \E n \in Nodes :
              n # Url2NodeName(url[p]) /\ SlotOf(grp[p], n).k = "client"

\* A slot that holds a client, or the creation of one.
Holds(i, n) == pools[i][n].k \in {"client", "inflight"}

\* C18: every group has a pool of its own and a client is held by the pool of
\* the group it was created through, and by no other: getClient on one group
\* never returns a client that the pool of another group holds or that a
\* getClient on another group returned.
C18_PoolsIsolated ==
    /\ \A g, h \in Groups :
          g # h /\ PoolOf(g) # NoPool => PoolOf(g) # PoolOf(h)
    /\ \A i, j \in PoolIds, n, m \in Nodes :
          Holds(i, n) /\ Holds(j, m) /\ pools[i][n].id = pools[j][m].id
          => i = j /\ n = m
    /\ \A p \in Procs :
          Succeeded(p) =>
             /\ cpool[p] = PoolOf(grp[p])
             /\ \A g \in Groups, n \in Nodes :
                   g # grp[p] => SlotOf(g, n) # res[p]
    /\ \A p, q \in Procs :
          Succeeded(p) /\ Succeeded(q) /\ grp[p] # grp[q] => res[p] # res[q]

\* C18 witness: the router sent two calls on two groups to the same URL; the
\* factory was invoked once for each group, each call holds its own client,
\* and each group's pool holds its own entry.
C18_Witness ==
    \E p, q \in Procs :
        /\ Succeeded(p) /\ Succeeded(q)
        /\ grp[p] # grp[q] /\ url[p] = url[q]
        /\ facCalls[Key(p)] = 1 /\ facCalls[Key(q)] = 1
        /\ res[p] # res[q]
        /\ SlotOf(grp[p], Url2NodeName(url[p])) = res[p]
        /\ SlotOf(grp[q], Url2NodeName(url[q])) = res[q]

\* C19 (as stated): over any sequence of starts, each completing
\* MustOpenOrCreate or ending fatally inside it, whenever MustOpenOrCreate
\* returns a store the schema tables exist and the logs table is partitioned.
C19_OpenedInitialised ==
    opc = "opened" => tables = Len(SchemaTables) /\ partitioned

\* A row with this id goes below the bound of partition j.
Below(id, j) == logsParts[j].max \/ id < logsParts[j].bound

\* PARTITION BY RANGE: the partitions a row with this id can go to, the first
\* in the order of definition whose bound lies above the id.
PartitionsOf(id) ==
    {j \in 1..Len(logsParts) :
        Below(id, j) /\ \A k \in 1..(j - 1) : ~Below(id, k)}

\* The ids up to one range beyond the last bound.
LogIds == 0..((partsNum + 1) * rangeSize)

\* C20: initLogsPartitions defines the partitions logs0..logs(N-1) with the
\* bounds (i+1)*LogsTablePartitionRangeSize, strictly increasing, and after
\* them one overflow partition with MAXVALUE; every log id falls into exactly
\* one partition and each of the first N covers exactly
\* LogsTablePartitionRangeSize ids.
C20_Partitions ==
    ppc = "done" =>
       /\ Len(logsParts) = partsNum + 1
       /\ \A i \in 1..partsNum :
             /\ logsParts[i].name = <<"logs", i - 1>>
             /\ ~logsParts[i].max
             /\ logsParts[i].bound = i * rangeSize
       /\ \A i, j \in 1..partsNum :
             i < j => logsParts[i].bound < logsParts[j].bound
       /\ logsParts[partsNum + 1] = OverflowLine
       /\ \A id \in LogIds : Cardinality(PartitionsOf(id)) = 1
       /\ \A j \in 1..partsNum :
             Cardinality({id \in LogIds : PartitionsOf(id) = {j}}) = rangeSize
       /\ \A id \in LogIds :
             id >= partsNum * rangeSize => PartitionsOf(id) = {partsNum + 1}

\* C20 witness: the statement has run with three ranges of two ids each; id 0
\* is in logs0, id 5 in logs2 and id 6 in the overflow partition.
C20_Witness ==
    /\ ppc = "done" /\ partsNum = 3 /\ rangeSize = 2
    /\ PartitionsOf(0) = {1}
    /\ PartitionsOf(5) = {3}
    /\ PartitionsOf(6) = {4}

====
